---- MODULE Spec2Model ----
(***************************************************************************)
(* A model of asks' Request (src/asks/request.py): one logical HTTP call   *)
(* that assembles a request, writes it to the connection, reconstructs the *)
(* response and chases redirects.                                          *)
(*                                                                         *)
(* Representation of Python values:                                        *)
(*   - a str whose characters matter (bodies, the cookie string) is a      *)
(*     sequence of code points; bytes are a sequence of 0..255;            *)
(*   - a str used as an atom (method, header name, host, port, path) is a  *)
(*     TLA+ string, concatenated with \o;                                  *)
(*   - a dict is a sequence of <<key, value>> pairs with distinct keys, in *)
(*     insertion order;                                                    *)
(*   - a URI is the tuple urlparse returns, as a record; its netloc is the *)
(*     sequence of its ':'-separated pieces.                               *)
(* The recursion _build_request -> request_io -> _redirect ->              *)
(* _build_request is run as a loop over the program counter pc: every      *)
(* level of the recursion returns the innermost response unchanged.        *)
(* sock, reads, received and lookups log the writes, the body reads, the   *)
(* responses and the cookie lookups of the call; events logs its           *)
(* operations (lookup, write, headers, body, store, check_redirect, or the *)
(* exception an operation raised) in the order they happen, each with the  *)
(* number of the request it belongs to.                                    *)
(***************************************************************************)
EXTENDS Integers, Sequences, FiniteSets, TLC

VARIABLES
    method, uri, port, data, headers, encoding, json, files, cookies,
    params, callback, timeout, max_redirects, history_objects, persist_cookies,
    scheme, netloc, path, query,
    pc, package, body, resp, parse_kwargs, result, error,
    sock, reads, received, lookups, events, peer, call

vars == <<method, uri, port, data, headers, encoding, json, files, cookies,
          params, callback, timeout, max_redirects, history_objects, persist_cookies,
          scheme, netloc, path, query,
          pc, package, body, resp, parse_kwargs, result, error,
          sock, reads, received, lookups, events, peer, call>>

\* ------------------------------------------------------------------ bounds

\* The largest finite max_redirects a caller passes.
MaxBudget == 2

\* The number of responses the peer sends in one call before it goes silent.
MaxResponses == 4

\* ------------------------------------------------------- values and helpers

\* None. Every optional Python value is a record [t, v], so None has the same
\* shape; IsNone is the test "x is None".
None == [t |-> "NoneType", v |-> <<>>]

IsNone(x) == x.t = "NoneType"

\* float('inf'), the default max_redirects, and the finite settings.
Inf == [inf |-> TRUE, n |-> 0]

Fin(n) == [inf |-> FALSE, n |-> n]

\* self.max_redirects < 0
IsNegative(m) == ~m.inf /\ m.n < 0

\* A budget that is never spent.
DecrementNever(m) == m

\* self.max_redirects -= 1 (inf - 1 is inf)
Decrement(m) == IF m.inf THEN m ELSE Fin(m.n - 1)

Range(s) == {s[i] : i \in 1..Len(s)}

Last(s) == s[Len(s)]

\* The keys of a dict, in order.
Keys(d) == [i \in 1..Len(d) |-> d[i][1]]

HasKey(d, k) == \E i \in 1..Len(d) : d[i][1] = k

\* d[k] for a key that is present.
Get(d, k) == d[CHOOSE i \in 1..Len(d) : d[i][1] = k][2]

\* d[k] = v: a present key keeps its place, a new key goes last.
DictSet(d, k, v) ==
    IF HasKey(d, k)
    THEN [i \in 1..Len(d) |-> IF d[i][1] = k THEN <<k, v>> ELSE d[i]]
    ELSE Append(d, <<k, v>>)

RECURSIVE DictUpdate(_, _)
\* d.update(other)
DictUpdate(d, other) ==
    IF other = <<>> THEN d
    ELSE DictUpdate(DictSet(d, other[1][1], other[1][2]), Tail(other))

RECURSIVE JoinColon(_)
\* ':'.join(pieces)
JoinColon(pieces) ==
    IF Len(pieces) = 0 THEN ""
    ELSE IF Len(pieces) = 1 THEN pieces[1]
    ELSE pieces[1] \o ":" \o JoinColon(Tail(pieces))

Digits == <<"0", "1", "2", "3", "4", "5", "6", "7", "8", "9">>

RECURSIVE Str(_)
\* str(n) for n >= 0
Str(n) == IF n < 10 THEN Digits[n + 1] ELSE Str(n \div 10) \o Digits[(n % 10) + 1]

\* ------------------------------------------------------------ text and bytes

\* The printable ASCII characters from ' ' (32) to '_' (95).
AsciiLow == <<" ", "!", "\"", "#", "$", "%", "&", "'", "(", ")", "*", "+", ",", "-", ".", "/", "0", "1", "2", "3", "4", "5", "6", "7", "8", "9", ":", ";", "<", "=", ">", "?", "@", "A", "B", "C", "D", "E", "F", "G", "H", "I", "J", "K", "L", "M", "N", "O", "P", "Q", "R", "S", "T", "U", "V", "W", "X", "Y", "Z", "[", "\\", "]", "^", "_">>

\* The printable ASCII characters from 'a' (97) to '~' (126).
AsciiHigh == <<"a", "b", "c", "d", "e", "f", "g", "h", "i", "j", "k", "l", "m", "n", "o", "p", "q", "r", "s", "t", "u", "v", "w", "x", "y", "z", "{", "|", "}", "~">>

\* chr(c) for a printable ASCII code point other than the backquote.
Chr(c) == IF c < 96 THEN AsciiLow[c - 31] ELSE AsciiHigh[c - 96]

RECURSIVE Text(_)
\* A str of printable ASCII code points as the TLA+ string it spells.
Text(s) == IF s = <<>> THEN "" ELSE Chr(s[1]) \o Text(Tail(s))

\* One code point encoded: UTF-8 (one, two or three bytes), or one byte per
\* character (latin-1, whose characters are all below 256).
EncodeChar(c, enc) ==
    IF enc = "utf-8"
    THEN IF c < 128 THEN <<c>>
         ELSE IF c < 2048 THEN <<192 + (c \div 64), 128 + (c % 64)>>
         ELSE <<224 + (c \div 4096), 128 + ((c \div 64) % 64), 128 + (c % 64)>>
    ELSE <<c>>

RECURSIVE Encode(_, _)
\* bytes(s, enc), s.encode(enc)
Encode(s, enc) ==
    IF s = <<>> THEN <<>> ELSE EncodeChar(s[1], enc) \o Encode(Tail(s), enc)

RECURSIVE Concat(_)
\* The concatenation of a list of sequences.
Concat(ss) == IF ss = <<>> THEN <<>> ELSE ss[1] \o Concat(Tail(ss))

RECURSIVE Join(_, _)
\* sep.join(ss)
Join(sep, ss) ==
    IF ss = <<>> THEN <<>>
    ELSE IF Len(ss) = 1 THEN ss[1]
    ELSE ss[1] \o sep \o Join(sep, Tail(ss))

\* The whitespace characters str.split() splits on: space, tab, LF, CR, VT, FF.
Whitespace == <<32, 9, 10, 13, 11, 12>>

RECURSIVE Split(_, _)
\* s.split(): the maximal runs of non-whitespace characters of s; cur is the
\* run being read.
Split(s, cur) ==
    IF s = <<>> THEN (IF cur = <<>> THEN <<>> ELSE <<cur>>)
    ELSE IF s[1] \in Range(Whitespace)
         THEN (IF cur = <<>> THEN <<>> ELSE <<cur>>) \o Split(Tail(s), <<>>)
         ELSE Split(Tail(s), Append(cur, s[1]))

\* The characters quote() never escapes: letters, digits and '_.-~'.
AlwaysSafe == <<65, 66, 67, 68, 69, 70, 71, 72, 73, 74, 75, 76, 77, 78, 79, 80, 81, 82, 83, 84, 85, 86, 87, 88, 89, 90, 97, 98, 99, 100, 101, 102, 103, 104, 105, 106, 107, 108, 109, 110, 111, 112, 113, 114, 115, 116, 117, 118, 119, 120, 121, 122, 48, 49, 50, 51, 52, 53, 54, 55, 56, 57, 95, 46, 45, 126>>

\* safe='/=+?&'
SafeChars == <<47, 61, 43, 63, 38>>

\* '0123456789ABCDEF'
HexDigits == <<48, 49, 50, 51, 52, 53, 54, 55, 56, 57, 65, 66, 67, 68, 69, 70>>

\* '%'
Percent == <<37>>

RECURSIVE Quote(_)
\* urllib.parse.quote(bs, safe='/=+?&') of bytes: a byte outside the safe
\* sets becomes %XX.
Quote(bs) ==
    IF bs = <<>> THEN <<>>
    ELSE (IF bs[1] \in Range(AlwaysSafe) \cup Range(SafeChars)
          THEN <<bs[1]>>
          ELSE Percent \o <<HexDigits[(bs[1] \div 16) + 1], HexDigits[(bs[1] % 16) + 1]>>)
         \o Quote(Tail(bs))

\* Request._queryify
Queryify(q, enc) == Quote(Encode(q, enc))

\* ------------------------------------------------------------ Python values

\* A Python value is a record [t, v]: t is "str" (v its code points), "bytes",
\* "num" (v a natural number), "list" (v a sequence of values) or "dict" (v a
\* sequence of <<key, value>> pairs, the keys being code point sequences).
PyStr(s) == [t |-> "str", v |-> s]

PyNum(n) == [t |-> "num", v |-> n]

PyList(l) == [t |-> "list", v |-> l]

PyDict(d) == [t |-> "dict", v |-> d]

\* bool(x): None, 0 and the empty str, list and dict are falsy.
Truthy(x) ==
    IF IsNone(x) THEN FALSE
    ELSE IF x.t = "num" THEN x.v # 0
    ELSE x.v # <<>>

RECURSIVE StrNum(_)
\* str(n), as code points
StrNum(n) == IF n < 10 THEN <<48 + n>> ELSE Append(StrNum(n \div 10), 48 + (n % 10))

\* str(x) of a str or a number
StrOf(x) == IF x.t = "num" THEN StrNum(x.v) ELSE x.v

\* '+', '=', '&', '?'
PLUS == <<43>>

EQUALS == <<61>>

AMP == <<38>>

QMARK == <<63>>

\* '+'.join(str(v).split())
PlusJoined(x) == Join(PLUS, Split(StrOf(x), <<>>))

\* The entries one (k, v) item of the dict adds to the query list.
QueryEntries(k, x, enc) ==
    IF ~Truthy(x) THEN <<>>
    ELSE IF x.t \in {"str", "num"}
         THEN <<Queryify(k \o EQUALS \o PlusJoined(x), enc)>>
    ELSE IF x.t = "dict"
         THEN [i \in 1..Len(x.v) |-> Queryify(k \o EQUALS \o x.v[i][1], enc)]
    ELSE [i \in 1..Len(x.v) |-> Queryify(k \o EQUALS \o PlusJoined(x.v[i]), enc)]

\* The query list of Request._dict_2_query after its loop over data.items().
QueryList(d, enc) ==
    Concat([i \in 1..Len(d) |-> QueryEntries(d[i][1], d[i][2], enc)])

\* Request._dict_2_query of a dict d (as_params is its argument params).
Dict2Query(d, as_params, base_query, enc) ==
    LET q == QueryList(d, enc)
    IN  IF as_params /\ q # <<>>
        THEN (IF ~base_query THEN QMARK ELSE AMP) \o Join(AMP, q)
        ELSE Join(AMP, q)

\* ----------------------------------------------------------------- multipart

\* _BOUNDARY: "8banana133744910kmmr13ay5fa56" and the str of a random integer
\* of 1000..9000 drawn at import; here 1000.
BOUNDARY == <<56, 98, 97, 110, 97, 110, 97, 49, 51, 51, 55, 52, 52, 57, 49, 48, 107, 109, 109, 114, 49, 51, 97, 121, 53, 102, 97, 53, 54, 49, 48, 48, 48>>

\* 'Content-Disposition: form-data; name="'
HderFormatOpen == <<67, 111, 110, 116, 101, 110, 116, 45, 68, 105, 115, 112, 111, 115, 105, 116, 105, 111, 110, 58, 32, 102, 111, 114, 109, 45, 100, 97, 116, 97, 59, 32, 110, 97, 109, 101, 61, 34>>

\* '; filename="'
HderFormatIoOpen == <<59, 32, 102, 105, 108, 101, 110, 97, 109, 101, 61, 34>>

\* '"'
DQUOTE == <<34>>

\* '; Content-Type: '
ContentTypeOpen == <<59, 32, 67, 111, 110, 116, 101, 110, 116, 45, 84, 121, 112, 101, 58, 32>>

\* 'application/octet-stream'
OctetStream == <<97, 112, 112, 108, 105, 99, 97, 116, 105, 111, 110, 47, 111, 99, 116, 101, 116, 45, 115, 116, 114, 101, 97, 109>>

\* '\r\n'
CRLF == <<13, 10>>

\* '--'
DASHES == <<45, 45>>

\* '/'
SLASH == <<47>>

\* The paths used as inputs: '/tmp/a.txt' and '/tmp/a.tar.gz' are files.
PathTxt == <<47, 116, 109, 112, 47, 97, 46, 116, 120, 116>>

PathTgz == <<47, 116, 109, 112, 47, 97, 46, 116, 97, 114, 46, 103, 122>>

\* The file system aopen() reads: the readable paths and their contents
\* ('hi\n' and the three bytes 1f 8b 08).
FileSystem == <<<<PathTxt, <<104, 105, 10>>>>, <<PathTgz, <<31, 139, 8>>>>>>

RECURSIVE Basename(_, _)
\* os.path.basename(p): what follows the last '/'; cur is the component read.
Basename(p, cur) ==
    IF p = <<>> THEN cur
    ELSE IF <<p[1]>> = SLASH THEN Basename(Tail(p), <<>>)
    ELSE Basename(Tail(p), Append(cur, p[1]))

\* mimetypes.guess_type(name) for the names of FileSystem: (type, encoding).
GuessType(name) ==
    IF name = <<97, 46, 116, 120, 116>> THEN <<PyStr(<<116, 101, 120, 116, 47, 112, 108, 97, 105, 110>>), None>>
    ELSE IF name = <<97, 46, 116, 97, 114, 46, 103, 122>> THEN <<PyStr(<<97, 112, 112, 108, 105, 99, 97, 116, 105, 111, 110, 47, 120, 45, 116, 97, 114>>), PyStr(<<103, 122, 105, 112>>)>>
    ELSE <<None, None>>

\* The mime type a file part is given (lines 292-296): the guess only when
\* guess_type names an encoding.
MimeType(name) ==
    LET g == GuessType(name)
    IN  IF IsNone(g[2]) THEN OctetStream ELSE g[1].v \o SLASH \o g[2].v

\* One part of Request._multipart, after its opening delimiter: a readable
\* path is sent as a file, anything else as a plain field.
MultipartPart(k, v, enc) ==
    IF HasKey(FileSystem, v)
    THEN Encode(HderFormatOpen \o k \o DQUOTE
                \o HderFormatIoOpen \o Basename(v, <<>>) \o DQUOTE, enc)
         \o Encode(ContentTypeOpen \o MimeType(Basename(v, <<>>)), enc)
         \o CRLF \o CRLF \o Get(FileSystem, v) \o CRLF
    ELSE Encode(HderFormatOpen \o k \o DQUOTE \o CRLF \o CRLF, enc)
         \o Encode(v, enc) \o CRLF

\* Request._multipart of a dict of str values.
Multipart(files_dict, enc) ==
    LET boundary == Encode(BOUNDARY, enc)
    IN  Concat([i \in 1..Len(files_dict) |->
                  DASHES \o boundary \o CRLF
                  \o MultipartPart(files_dict[i][1], files_dict[i][2].v, enc)
                  \o (IF i = Len(files_dict)
                      THEN DASHES \o boundary \o DASHES \o CRLF ELSE <<>>)])

\* ---------------------------------------------------------------------- JSON

\* One character of a JSON string (ensure_ascii): '"' and '\' are escaped
\* with a backslash, a character above '~' as \u and four hex digits.
JsonChar(c) ==
    LET hex == <<48, 49, 50, 51, 52, 53, 54, 55, 56, 57, 97, 98, 99, 100, 101, 102>>
    IN  IF c = 34 \/ c = 92 THEN <<92, c>>
        ELSE IF c > 126
             THEN <<92, 117, hex[(c \div 4096) + 1], hex[((c \div 256) % 16) + 1],
                    hex[((c \div 16) % 16) + 1], hex[(c % 16) + 1]>>
        ELSE <<c>>

JsonString(s) == DQUOTE \o Concat([i \in 1..Len(s) |-> JsonChar(s[i])]) \o DQUOTE

RECURSIVE JsonDumps(_)
\* json.dumps(x) with its default separators.
JsonDumps(x) ==
    IF x.t = "str" THEN JsonString(x.v)
    ELSE IF x.t = "num" THEN StrNum(x.v)
    ELSE IF x.t = "list"
         THEN <<91>> \o Join(<<44, 32>>, [i \in 1..Len(x.v) |-> JsonDumps(x.v[i])]) \o <<93>>
    ELSE <<123>> \o Join(<<44, 32>>, [i \in 1..Len(x.v) |->
                           JsonString(x.v[i][1]) \o <<58, 32>> \o JsonDumps(x.v[i][2])])
         \o <<125>>

\* ---------------------------------------------------------- _formulate_body

\* ' multipart/form-data; boundary={}'.format(_BOUNDARY)
MultipartCtype == " multipart/form-data; boundary=" \o Text(BOUNDARY)

\* Request._formulate_body: [err, c_type, content_len, body]. The body is a
\* str or bytes value; err names the exception that escapes ("" if none).
FormulateBody(d, f, j, enc) ==
    LET out(c, b) == [err |-> "", c_type |-> c, content_len |-> Str(Len(b.v)), body |-> b]
    IN  IF ~IsNone(f) /\ ~IsNone(d)
        THEN IF d.t # "dict"
             THEN [err |-> "TypeError", c_type |-> "None", content_len |-> "0", body |-> PyStr(<<>>)]
             ELSE out(MultipartCtype,
                      [t |-> "bytes", v |-> Multipart(DictUpdate(f.v, d.v), enc)])
        ELSE IF ~IsNone(f)
        THEN out(MultipartCtype, [t |-> "bytes", v |-> Multipart(f.v, enc)])
        ELSE IF ~IsNone(d)
        THEN IF d.t = "dict"
             THEN out(" application/x-www-form-urlencoded",
                      PyStr(Dict2Query(d.v, FALSE, FALSE, enc)))
             ELSE out(" text/html", d)
        ELSE IF ~IsNone(j)
        THEN out(" application/json", PyStr(JsonDumps(j)))
        ELSE out("None", PyStr(<<>>))

\* ------------------------------------------------------------ _build_request

\* The port of lines 63-70: the second piece when netloc.split(':') has
\* exactly two, else the default by the URI's prefix ('https' or not).
SplitPort(u) ==
    IF Len(u.netloc) = 2 THEN u.netloc[2]
    ELSE IF u.scheme = "https" THEN "443" ELSE "80"

\* self.netloc after lines 63-70, as pieces: the first piece when the split
\* gave two, else the netloc as it was.
SplitNetloc(u) == IF Len(u.netloc) = 2 THEN <<u.netloc[1]>> ELSE u.netloc

\* The Host header value (lines 72-74).
HostHeader(nl, p) ==
    IF p = "80" \/ p = "443" THEN JoinColon(nl) ELSE JoinColon(nl) \o ":" \o p

\* asks_headers as first built (lines 77-83).
DefaultHeaders(host) ==
    << <<"Host", host>>,
       <<"Connection", "keep-alive">>,
       <<"Accept-Encoding", "gzip, deflate">>,
       <<"Accept", "*/*">>,
       <<"Content-Length", "0">>,
       <<"User-Agent", "python-asks/0.0.1">> >>

\* persist_cookies.get_additional_cookies(netloc, path): the cookies the
\* store holds for the host, in the order it stored them.
GetAdditionalCookies(jar, host) ==
    LET own == SelectSeq(jar.v, LAMBDA e : e.host = host)
    IN  [i \in 1..Len(own) |-> <<own[i].k, own[i].v>>]

\* self.cookies after lines 87-90.
MergedCookies(c, jar, host) ==
    IF ~IsNone(jar) THEN DictUpdate(c, GetAdditionalCookies(jar, host)) ELSE c

\* Request._build_path
BuildPath(p, q, prm, enc) ==
    LET p1 == IF p = "" THEN "/" ELSE p
        p2 == IF q # "" THEN p1 \o "?" \o q ELSE p1
    IN  IF Truthy(prm)
        THEN IF prm.t = "dict"
             THEN p2 \o Text(Dict2Query(prm.v, TRUE, q # "", enc))
             ELSE p2 \o "?" \o Text(Queryify(prm.v, enc))
        ELSE p2

\* 'Cookie: '
CookieOpen == <<67, 111, 111, 107, 105, 101, 58, 32>>

\* '; '
CookieSep == <<59, 32>>

\* cookie_str after the loop of lines 115-117: '{}={}; ' for every cookie.
CookieStr(c) == Concat([i \in 1..Len(c) |-> c[i][1] \o EQUALS \o c[i][2] \o CookieSep])

\* cookie_str[:-1]
DropLast(s) == SubSeq(s, 1, Len(s) - 1)

\* The Cookie lines appended to the package (lines 114-118).
CookieLines(c) == IF c # <<>> THEN <<CookieOpen \o DropLast(CookieStr(c))>> ELSE <<>>

\* The header dict after the body's headers and the caller's headers are
\* applied (lines 99-107).
AsksHeaders(host, has_body, fb, h) ==
    LET h1 == IF has_body
              THEN DictSet(DictSet(DefaultHeaders(host), "Content-Type", fb.c_type),
                           "Content-Length", fb.content_len)
              ELSE DefaultHeaders(host)
    IN  IF ~IsNone(h) THEN DictUpdate(h1, h.v) ELSE h1

\* Request._build_request up to its call of request_io (lines 61-118). The
\* package is the request line, the header lines (each k + ': ' + v) and the
\* Cookie lines, in the order they are appended.
BuildRequest ==
    /\ pc = "build"
    /\ LET nl == SplitNetloc(uri)
           p == SplitPort(uri)
           host == HostHeader(nl, p)
           c == MergedCookies(cookies, persist_cookies, JoinColon(nl))
           pth == BuildPath(uri.path, uri.query, params, encoding)
           has_body == Truthy(data) \/ Truthy(files) \/ Truthy(json)
           fb == FormulateBody(data, files, json, encoding)
       IN  /\ scheme' = uri.scheme
           /\ netloc' = nl
           /\ port' = p
           /\ query' = uri.query
           /\ cookies' = c
           /\ path' = pth
           /\ lookups' = IF ~IsNone(persist_cookies)
                         THEN Append(lookups,
                                     [host |-> JoinColon(nl), path |-> uri.path,
                                      found |-> GetAdditionalCookies(persist_cookies, JoinColon(nl))])
                         ELSE lookups
           /\ events' = IF ~IsNone(persist_cookies)
                        THEN Append(events, [op |-> "lookup", n |-> Len(sock) + 1])
                        ELSE events
           /\ IF has_body /\ fb.err # ""
              THEN /\ pc' = "raised"
                   /\ error' = fb.err
                   /\ UNCHANGED <<package, body>>
              ELSE /\ pc' = "send"
                   /\ package' = [request_line |-> <<method, pth, "HTTP/1.1">>,
                                  headers |-> AsksHeaders(host, has_body, fb, headers),
                                  cookie |-> CookieLines(c)]
                   /\ body' = IF has_body THEN fb.body ELSE PyStr(<<>>)
                   /\ UNCHANGED error
    /\ UNCHANGED <<method, uri, data, headers, encoding, json, files, params,
                   callback, timeout, max_redirects, history_objects,
                   persist_cookies, resp, parse_kwargs, result,
                   sock, reads, received, peer, call>>

\* ----------------------------------------------------------------- _send

\* The bytes of the body that _send appends to the head (lines 375-379): none
\* for a falsy body, the body itself when it is bytes, else its encoding.
WireBody(b, enc) ==
    IF ~Truthy(b) THEN <<>>
    ELSE IF b.t = "bytes" THEN b.v ELSE Encode(b.v, enc)

\* Request._send: one write of the head (the package lines joined by CRLF
\* and ended by a blank line) followed by the body bytes. Each entry of sock
\* is one write; beside the bytes it records what the request was built
\* from: self.uri, self.netloc, self.port and self.cookies.
Send ==
    /\ pc = "send"
    /\ sock' = Append(sock, [head |-> package, body |-> WireBody(body, encoding),
                             uri |-> uri, host |-> JoinColon(netloc), port |-> port,
                             cookies |-> cookies])
    /\ events' = Append(events, [op |-> "write", n |-> Len(sock) + 1])
    /\ pc' = "headers"
    /\ UNCHANGED <<method, uri, port, data, headers, encoding, json, files, params,
                   cookies, callback, timeout, max_redirects, history_objects,
                   persist_cookies, scheme, netloc, path, query, package, body,
                   resp, parse_kwargs, result, error, reads, received, lookups,
                   peer, call>>

\* ------------------------------------------------------- _catch_response

RECURSIVE IntOf(_, _)
\* int(s) of a str of decimal digits, acc the value read so far: [ok, n];
\* ok is FALSE where int() raises ValueError (an empty or non-digit str).
IntOf(s, acc) ==
    IF s = <<>> THEN [ok |-> TRUE, n |-> acc]
    ELSE IF s[1] \in 48..57 THEN IntOf(Tail(s), 10 * acc + (s[1] - 48))
    ELSE [ok |-> FALSE, n |-> 0]

RECURSIVE LStrip(_)
LStrip(s) == IF s # <<>> /\ s[1] \in Range(Whitespace) THEN LStrip(Tail(s)) ELSE s

RECURSIVE RStrip(_)
RStrip(s) == IF s # <<>> /\ Last(s) \in Range(Whitespace) THEN RStrip(DropLast(s)) ELSE s

\* s.strip()
Strip(s) == RStrip(LStrip(s))

\* 'chunked'
CHUNKED == <<99, 104, 117, 110, 107, 101, 100>>

\* parse_kwargs as lines 342-359 leave it, a dict: [err, kwargs]. err is
\* "ValueError" when int() rejects the Content-Length value.
ParseKwargs(hdrs, cb) ==
    IF HasKey(hdrs, "Content-Length")
    THEN LET i == IF Get(hdrs, "Content-Length") = <<>>
                  THEN [ok |-> FALSE, n |-> 0]
                  ELSE IntOf(Get(hdrs, "Content-Length"), 0)
         IN  IF ~i.ok THEN [err |-> "ValueError", kwargs |-> <<>>]
             ELSE IF i.n > 0
             THEN IF Truthy(cb)
                  THEN [err |-> "", kwargs |-> << <<"length", i.n>>, <<"callback", cb>> >>]
                  ELSE [err |-> "", kwargs |-> << <<"length", i.n>> >>]
             ELSE [err |-> "", kwargs |-> <<>>]
    ELSE IF HasKey(hdrs, "Transfer-Encoding")
            /\ Strip(Get(hdrs, "Transfer-Encoding")) = CHUNKED
         THEN [err |-> "", kwargs |-> << <<"chunked", TRUE>> >>]
         ELSE [err |-> "", kwargs |-> <<>>]

\* HttpParser.parse_body(**kwargs): the bytes the parser hands back: length
\* bytes of a fixed-length body, the decoded payload of a chunked one, and
\* None when it feeds a callback instead.
ParseBody(kwargs) ==
    IF HasKey(kwargs, "callback") THEN None
    ELSE IF HasKey(kwargs, "length")
         THEN [t |-> "bytes", v |-> [i \in 1..Get(kwargs, "length") |-> 120]]
    ELSE [t |-> "bytes", v |-> <<111, 107>>]

\* Request._catch_response, first part (lines 338-359): the parser reads the
\* status line and the header block of the next response r of the peer, and
\* the framing of the body is decided.
CatchHeaders ==
    /\ pc = "headers"
    /\ Len(sock) <= MaxResponses
    /\ \E r \in peer :
         LET pk == ParseKwargs(r.headers, callback)
         IN  /\ resp' = [status_code |-> r.status_code, headers |-> r.headers,
                         cookies |-> r.cookies]
             /\ IF pk.err # ""
                THEN /\ pc' = "raised"
                     /\ error' = pk.err
                     /\ UNCHANGED parse_kwargs
                ELSE /\ pc' = "body"
                     /\ parse_kwargs' = pk.kwargs
                     /\ UNCHANGED error
    /\ events' = Append(events, [op |-> "headers", n |-> Len(sock)])
    /\ UNCHANGED <<method, uri, port, data, headers, encoding, json, files, params,
                   cookies, callback, timeout, max_redirects, history_objects,
                   persist_cookies, scheme, netloc, path, query, package, body,
                   result, sock, reads, received, lookups, peer, call>>

\* Request._catch_response, second part (lines 360-365): the body read, if
\* parse_kwargs asks for one, and the Response object. A Response has an
\* identity (id: its rank among the responses of the call), no history and
\* no host for its cookies yet. reads logs every parse_body call with the id
\* of the response it reads the body of.
CatchBody ==
    /\ pc = "body"
    /\ reads' = IF parse_kwargs # <<>>
                 THEN Append(reads, [id |-> Len(received) + 1, kwargs |-> parse_kwargs])
                 ELSE reads
    /\ resp' = [id |-> Len(received) + 1,
                encoding |-> encoding,
                cookies |-> resp.cookies,
                status_code |-> resp.status_code,
                method |-> method,
                headers |-> resp.headers,
                body |-> IF parse_kwargs # <<>> THEN ParseBody(parse_kwargs) ELSE None,
                history |-> <<>>,
                host |-> ""]
    /\ received' = Append(received, resp')
    /\ events' = IF parse_kwargs # <<>>
                 THEN Append(events, [op |-> "body", n |-> Len(sock)])
                 ELSE events
    /\ pc' = "io"
    /\ UNCHANGED <<method, uri, port, data, headers, encoding, json, files, params,
                   cookies, callback, timeout, max_redirects, history_objects,
                   persist_cookies, scheme, netloc, path, query, package, body,
                   parse_kwargs, result, error, sock, lookups, peer, call>>

\* ------------------------------------------------- request_io and _redirect

\* Response._check_redirect: (redirect, force_get, location). A 3xx status
\* with a Location header is a redirect; 301, 302 and 303 force GET, 307 and
\* 308 keep the method.
CheckRedirect(r) ==
    IF r.status_code \in {301, 302, 303, 307, 308} /\ HasKey(r.headers, "Location")
    THEN [redirect |-> TRUE, force_get |-> r.status_code \in {301, 302, 303},
          location |-> Get(r.headers, "Location")]
    ELSE [redirect |-> FALSE, force_get |-> FALSE, location |-> None]

\* persist_cookies._store_cookies(response): the store keeps each cookie of
\* the response under the response's host, a new value replacing an old one.
StoreCookies(jar, r) ==
    LET kept == SelectSeq(jar.v, LAMBDA e : ~(e.host = r.host /\ HasKey(r.cookies, e.k)))
    IN  [jar EXCEPT !.v = kept \o [i \in 1..Len(r.cookies) |->
                                     [host |-> r.host, k |-> r.cookies[i][1],
                                      v |-> r.cookies[i][2]]]]

\* A request_io that leaves the cookie store as it is.
StoredJarSkipped(jar, r) == jar

\* self.persist_cookies after lines 136-137: the response's cookies are
\* stored when the call has a cookie store.
StoredJar(jar, r) == IF ~IsNone(jar) THEN StoreCookies(jar, r) ELSE jar

\* A request_io that checks redirects whatever the method.
ChecksRedirectsAlways(m) == TRUE

\* Line 141: redirects are checked unless the method is HEAD.
ChecksRedirects(m) == m # "HEAD"

\* Line 142: the budget test made before the decrement.
BudgetExhausted(m) == IsNegative(m)

\* location.strip() (lines 183, 191): a Location value without the
\* whitespace around it. A value that has some carries the field pad.
StripLocation(location) ==
    [scheme |-> location.scheme, netloc |-> location.netloc,
     path |-> location.path, query |-> location.query]

\* A _redirect that takes an absolute Location as it came.
RedirectUriUnstripped(sch, nl, location) ==
    IF location.netloc = <<>>
    THEN [scheme |-> sch, netloc |-> nl, path |-> location.path, query |-> location.query]
    ELSE location

\* self.uri after lines 184-192: a Location without a netloc is resolved
\* against self.scheme and self.netloc, any other replaces the URI.
RedirectUri(sch, nl, location) ==
    LET loc == StripLocation(location)
    IN  IF loc.netloc = <<>>
        THEN [scheme |-> sch, netloc |-> nl, path |-> loc.path, query |-> loc.query]
        ELSE loc

\* A _redirect that never downgrades the method.
RedirectMethodKept(m, force_get) == m

\* self.method after lines 195-199.
RedirectMethod(m, force_get) == IF force_get THEN "GET" ELSE m

\* A _redirect that records the response only in its force_get branch.
RedirectHistoryOnlyForced(h, r, force_get) == IF force_get THEN Append(h, r) ELSE h

\* self.history_objects after lines 195-199.
RedirectHistory(h, r, force_get) == IF force_get THEN Append(h, r) ELSE Append(h, r)

\* Request.request_io after _catch_response (lines 134-149), with the
\* _redirect it calls (lines 182-202): the cookies are parsed and stored,
\* then the call raises TooManyRedirects, goes on to build the next request,
\* or returns the response with the history.
RequestIO ==
    /\ pc = "io"
    /\ LET r == [resp EXCEPT !.host = JoinColon(netloc)]
           chk == CheckRedirect(r)
           stored == IF ~IsNone(persist_cookies)
                     THEN Append(events, [op |-> "store", n |-> r.id])
                     ELSE events
       IN  /\ resp' = r
           /\ persist_cookies' = StoredJar(persist_cookies, r)
           /\ events' = IF ChecksRedirects(method) /\ ~BudgetExhausted(max_redirects)
                        THEN Append(stored, [op |-> "check_redirect", n |-> r.id])
                        ELSE stored
           /\ IF ChecksRedirects(method) /\ BudgetExhausted(max_redirects)
              THEN /\ pc' = "raised"
                   /\ error' = "TooManyRedirects"
                   /\ UNCHANGED <<max_redirects, uri, method, history_objects, result>>
              ELSE IF ChecksRedirects(method) /\ chk.redirect
              THEN /\ max_redirects' = Decrement(max_redirects)
                   /\ uri' = RedirectUri(scheme, netloc, chk.location)
                   /\ history_objects' = RedirectHistory(history_objects, r, chk.force_get)
                   /\ method' = RedirectMethod(method, chk.force_get)
                   /\ pc' = "build"
                   /\ UNCHANGED <<result, error>>
              ELSE /\ max_redirects' = IF ChecksRedirects(method)
                                       THEN Decrement(max_redirects)
                                       ELSE max_redirects
                   /\ result' = [r EXCEPT !.history = history_objects]
                   /\ pc' = "returned"
                   /\ UNCHANGED <<uri, method, history_objects, error>>
    /\ UNCHANGED <<port, data, headers, encoding, json, files, params,
                   cookies, callback, timeout, scheme, netloc, path, query,
                   package, body, parse_kwargs, sock, reads, received, lookups,
                   peer, call>>

\* ------------------------------------------------------------------ inputs

Uri(sch, nl, pth, q) == [scheme |-> sch, netloc |-> nl, path |-> pth, query |-> q]

\* A relative Location: no scheme and no netloc.
Relative(pth) == Uri("", <<>>, pth, "")

\* Cookies: c=1, sid=x, t=2.
CookieC == <<<<99>>, <<49>>>>

CookieSid == <<<<115, 105, 100>>, <<120>>>>

CookieT == <<<<116>>, <<50>>>>

\* A cookie store holding sid=x for a.example.
JarA == [t |-> "jar", v |-> <<[host |-> "a.example", k |-> CookieSid[1], v |-> CookieSid[2]]>>]

\* A peer response: status, headers (a dict by header name) and the cookies
\* the parser extracts from its Set-Cookie headers.
Answer(status, hdrs, cks) == [status_code |-> status, headers |-> hdrs, cookies |-> cks]

\* The responses the peer of a redirect chain picks from: a plain 200, and
\* 303 and 307 redirects to a relative and to an absolute Location.
ChainResponses ==
    { Answer(200, <<>>, <<>>),
      Answer(303, << <<"Location", Relative("/r")>> >>, <<>>),
      Answer(303, << <<"Location", Uri("http", <<"b.example">>, "/y", "")>> >>, <<>>),
      Answer(307, << <<"Location", Relative("/r")>> >>, <<CookieT>>),
      Answer(307, << <<"Location", Uri("http", <<"b.example">>, "/y", "")>> >>, <<>>) }

\* The state after Request.__init__(method, uri, **kwargs) (lines 24-50) for
\* the given arguments, before _build_request is called, with the peer's
\* repertoire pr.
Start(m, u, kw, pr) ==
    /\ method = m
    /\ uri = u
    /\ port = "None"
    /\ data = kw.data
    /\ params = kw.params
    /\ headers = kw.headers
    /\ encoding = kw.encoding
    /\ json = kw.json
    /\ files = kw.files
    /\ cookies = kw.cookies
    /\ callback = kw.callback
    /\ timeout = 999999
    /\ max_redirects = kw.max_redirects
    /\ history_objects = <<>>
    /\ persist_cookies = kw.persist_cookies
    /\ scheme = "None"
    /\ netloc = <<>>
    /\ path = "None"
    /\ query = "None"
    /\ pc = "build"
    /\ package = None
    /\ body = None
    /\ resp = None
    /\ parse_kwargs = <<>>
    /\ result = None
    /\ error = ""
    /\ sock = <<>>
    /\ reads = <<>>
    /\ received = <<>>
    /\ lookups = <<>>
    /\ events = <<>>
    /\ peer = pr
    /\ call = [method |-> m, uri |-> u, kw |-> kw]

\* The defaults of Request.__init__ (lines 27-41).
Defaults ==
    [data |-> None, params |-> None, headers |-> None, encoding |-> "utf-8",
     json |-> None, files |-> None, cookies |-> <<>>, callback |-> None,
     max_redirects |-> Inf, persist_cookies |-> None]

\* A call of any method and redirect budget against a peer that redirects.
Init ==
    \E m \in {"GET", "POST", "HEAD"},
       u \in {Uri("http", <<"a.example">>, "/x", ""),
              Uri("http", <<"a.example", "8080">>, "", "k=v")},
       mr \in {Fin(n) : n \in -1..MaxBudget} \cup {Inf},
       c \in {<<>>, <<CookieC>>},
       jar \in {None, JarA} :
      Start(m, u, [Defaults EXCEPT !.max_redirects = mr, !.cookies = c,
                                   !.persist_cookies = jar],
            ChainResponses)


\* ----------------------------------------------------- the request assembler

\* The body sources of a call, as (data, files, json): none; the forms
\* {'q': 'a b'} and {'q': 'é', 'n': 7, 'l': ['x', 'y z']}; the raw form
\* values 'hi', 'é!' and b'hi'; a file part; a file part with a form; a
\* plain multipart field 'é!'; a JSON payload; an empty form beside a JSON
\* payload; a raw form value beside a file part; an empty JSON payload; an
\* empty form; a form and a file part under the same name; a form beside an
\* empty files mapping; the forms {'q': 'a&b'} and {'q': 'a  b+c'};
\* an empty files mapping beside a JSON payload.
BodySources ==
    LET q == <<113>>
        f == <<102>>
        form == PyDict(<< <<q, PyStr(<<97, 32, 98>>)>> >>)
        form2 == PyDict(<< <<q, PyStr(<<233>>)>>,
                           <<<<110>>, PyNum(7)>>,
                           <<<<108>>, PyList(<<PyStr(<<120>>), PyStr(<<121, 32, 122>>)>>)>> >>)
        file == PyDict(<< <<f, PyStr(PathTxt)>> >>)
        field == PyDict(<< <<f, PyStr(<<233, 33>>)>> >>)
        payload == PyDict(<< <<<<97>>, PyStr(<<233>>)>> >>)
    IN  { <<None, None, None>>,
          <<form, None, None>>,
          <<form2, None, None>>,
          <<PyStr(<<104, 105>>), None, None>>,
          <<PyStr(<<233, 33>>), None, None>>,
          <<[t |-> "bytes", v |-> <<104, 105>>], None, None>>,
          <<None, file, None>>,
          <<form, file, None>>,
          <<None, field, None>>,
          <<None, None, payload>>,
          <<PyDict(<<>>), None, payload>>,
          <<PyStr(<<104, 105>>), file, None>>,
          <<None, None, PyDict(<<>>)>>,
          <<PyDict(<<>>), None, None>>,
          <<PyDict(<< <<f, PyStr(<<97, 32, 98>>)>> >>), file, None>>,
          <<form, PyDict(<<>>), None>>,
          <<PyDict(<< <<q, PyStr(<<97, 38, 98>>)>> >>), None, None>>,
          <<PyDict(<< <<q, PyStr(<<97, 32, 32, 98, 43, 99>>)>> >>), None, None>>,
          <<None, PyDict(<<>>), payload>> }

\* The target URIs: http and https, with no port and with ports 80, 443, 8080.
TargetUris ==
    { Uri(sch, nl, "/", "x=1") :
        sch \in {"http", "https"},
        nl \in { <<"a.example">>, <<"a.example", "80">>, <<"a.example", "443">>,
                 <<"a.example", "8080">> } }

\* The headers a caller passes: none, one of its own, or a Content-Length.
CallerHeaders ==
    { None, PyDict(<< <<"X-Tag", "1">> >>), PyDict(<< <<"Content-Length", "5">> >>) }

\* The peer of an assembled request answers 200 with no body.
PlainResponses == { Answer(200, <<>>, <<>>) }

\* One request of every body source, target, header set, cookie set and
\* encoding, assembled, written and answered.
InitAssemble ==
    \E u \in TargetUris,
       src \in BodySources,
       h \in CallerHeaders,
       c \in {<<>>, <<CookieC>>, <<CookieC, CookieT>>},
       jar \in {None, JarA},
       prm \in {None, PyDict(<< <<<<113>>, PyStr(<<97, 32, 98>>)>> >>)},
       enc \in {"utf-8", "latin-1"} :
      Start("POST", u, [Defaults EXCEPT !.data = src[1], !.files = src[2],
                                       !.json = src[3], !.headers = h,
                                       !.cookies = c, !.persist_cookies = jar,
                                       !.params = prm, !.encoding = enc],
            PlainResponses)

\* -------------------------------------------------- the response reconstructor

\* The Content-Length values of the peer's responses: no header, '0', '3',
\* '12' and 'x'; and the Transfer-Encoding values: no header, 'chunked',
\* ' chunked ' and 'gzip'.
FramingHeaders ==
    { cl \o te :
        cl \in { <<>> } \cup { << <<"Content-Length", v>> >> :
                                v \in {<<48>>, <<51>>, <<49, 50>>, <<120>>} },
        te \in { <<>> } \cup { << <<"Transfer-Encoding", v>> >> :
                                v \in {CHUNKED, <<32, 99, 104, 117, 110, 107, 101, 100, 32>>, <<103, 122, 105, 112>>} } }

\* The responses of a peer that frames its bodies in every way: a 200 with
\* each framing, and 303 redirects with and without a body.
FramingResponses ==
    { Answer(200, h, <<>>) : h \in FramingHeaders }
    \cup { Answer(303, << <<"Location", Relative("/r")>> >> \o h, <<>>) :
             h \in { <<>>, << <<"Content-Length", <<51>>>> >> } }

\* The callback a caller passes: a function named 'cb'.
Callback == [t |-> "func", v |-> <<99, 98>>]

\* A call of any method, with or without a callback, against a peer that
\* frames its bodies in every way.
InitCatch ==
    \E m \in {"GET", "POST", "HEAD"},
       cb \in {None, Callback},
       mr \in {Fin(MaxBudget), Inf} :
      Start(m, Uri("http", <<"a.example">>, "/x", ""),
            [Defaults EXCEPT !.callback = cb, !.max_redirects = mr],
            FramingResponses)

Next ==
    \/ BuildRequest
    \/ Send
    \/ CatchHeaders
    \/ CatchBody
    \/ RequestIO

Spec == Init /\ [][Next]_vars

SpecAssemble == InitAssemble /\ [][Next]_vars

SpecCatch == InitCatch /\ [][Next]_vars

\* --------------------------------------------------------- redirect chains

\* The method of the i-th request written.
MethodOf(i) == sock[i].head.request_line[1]

\* The finite budget the caller passed (max_redirects).
Budget == call.kw.max_redirects.n

\* C1: with a finite budget m >= 0 and a method other than HEAD, at most m
\* redirects are followed, so at most m + 1 requests are written.
C1_AtMostBudgetFollows ==
    (~call.kw.max_redirects.inf /\ Budget >= 0 /\ call.method # "HEAD")
        => /\ Len(history_objects) <= Budget
           /\ Len(sock) <= Budget + 1

\* C2: the response returned after a chain of k followed redirects has a
\* history of exactly k entries: the k responses that a redirect superseded,
\* each once, in the order they were received; the returned response is the
\* last one received and is not in its own history.
C2_HistoryIsTheChain ==
    pc = "returned" =>
        /\ Len(result.history) = Len(sock) - 1
        /\ Len(received) = Len(sock)
        /\ \A i \in 1..Len(result.history) :
             /\ result.history[i].id = received[i].id
             /\ result.history[i].status_code = received[i].status_code
             /\ CheckRedirect(result.history[i]).redirect
        /\ result.id = Last(received).id
        /\ \A i \in 1..Len(result.history) : result.history[i].id # result.id
        /\ \A i, j \in 1..Len(result.history) :
             i # j => result.history[i].id # result.history[j].id

\* A chain of three followed redirects, of both kinds, has returned.
C2_Witness ==
    /\ pc = "returned"
    /\ Len(result.history) = 3
    /\ \E i, j \in 1..3 : /\ CheckRedirect(result.history[i]).force_get
                          /\ ~CheckRedirect(result.history[j]).force_get

\* C4: the request that follows a redirect goes to the Location target, with
\* method GET when the redirect forces it and with the method of the
\* redirected request otherwise; the history entry is the response to that
\* redirected request; after a forced GET every later request is a GET.
C4_MethodPolicy ==
    \A i \in 1..(Len(sock) - 1) :
        LET chk == CheckRedirect(received[i])
            loc == chk.location
        IN  /\ chk.redirect
            /\ MethodOf(i + 1) = IF chk.force_get THEN "GET" ELSE MethodOf(i)
            /\ history_objects[i].id = received[i].id
            /\ history_objects[i].method = MethodOf(i)
            /\ sock[i + 1].head.request_line[2]
                 = BuildPath(loc.path, loc.query, params, encoding)
            /\ sock[i + 1].host = IF loc.netloc = <<>> THEN sock[i].host
                                  ELSE JoinColon(SplitNetloc(loc))
            /\ chk.force_get => \A j \in (i + 1)..Len(sock) : MethodOf(j) = "GET"

\* A POST answered by a 303 was re-issued as GET, and a later 307 kept GET.
C4_Witness ==
    /\ Len(sock) >= 3
    /\ MethodOf(1) = "POST"
    /\ received[1].status_code = 303
    /\ MethodOf(2) = "GET"
    /\ received[2].status_code = 307
    /\ history_objects[1].method = "POST"

\* C5: every request carries exactly the caller's cookies merged with what
\* the cookie store returned for that request's own host and path.
C5_CookiesOfOwnHostOnly ==
    ~IsNone(call.kw.persist_cookies) =>
        \A i \in 1..Len(sock) :
            /\ lookups[i].host = sock[i].host
            /\ sock[i].head.cookie
                 = CookieLines(DictUpdate(call.kw.cookies, lookups[i].found))

\* C6: a HEAD call is done after its first response: one request written, no
\* redirect followed, the budget untouched, TooManyRedirects never raised,
\* and an empty history returned.
C6_HeadIsDoneAtOnce ==
    call.method = "HEAD" =>
        /\ method = "HEAD"
        /\ Len(sock) <= 1
        /\ max_redirects = call.kw.max_redirects
        /\ history_objects = <<>>
        /\ pc # "raised"
        /\ error = ""
        /\ Len(received) = 1 => pc \in {"io", "returned"}
        /\ pc = "returned" => /\ result.history = <<>>
                              /\ Len(sock) = 1
                              /\ result.id = 1

\* A HEAD call with a spent budget has returned a redirect response.
C6_Witness ==
    /\ call.method = "HEAD"
    /\ pc = "returned"
    /\ CheckRedirect(result).redirect
    /\ IsNegative(call.kw.max_redirects)

\* ------------------------------------------------------ assembled requests

\* C3: in every request written, the Content-Length header is the number of
\* body bytes that follow the head (0 when none do). Stated for the calls
\* whose own headers name no Content-Length.
C3_ContentLengthIsBodyLength ==
    (IsNone(call.kw.headers) \/ ~HasKey(call.kw.headers.v, "Content-Length")) =>
        \A i \in 1..Len(sock) :
            Get(sock[i].head.headers, "Content-Length") = Str(Len(sock[i].body))

\* The default port of a scheme.
DefaultPort(sch) == IF sch = "https" THEN "443" ELSE "80"

\* The port a URI addresses: its own, or its scheme's default.
EffectivePort(u) == IF Len(u.netloc) = 2 THEN u.netloc[2] ELSE DefaultPort(u.scheme)

\* C9: the Host header is the bare host exactly when the effective port is
\* the default port of the URI's scheme, and host:port otherwise.
C9_HostHeaderByScheme ==
    \A i \in 1..Len(sock) :
        LET u == sock[i].uri
        IN  Get(sock[i].head.headers, "Host")
              = IF EffectivePort(u) = DefaultPort(u.scheme)
                THEN u.netloc[1]
                ELSE u.netloc[1] \o ":" \o EffectivePort(u)

\* C10: a request with cookies carries exactly one Cookie line, 'Cookie: '
\* and the k=v pairs in the mapping's order joined by '; ', nothing after
\* the last pair; a request without cookies carries no Cookie line.
C10_CookieLineFormat ==
    \A i \in 1..Len(sock) :
        LET c == sock[i].cookies
        IN  sock[i].head.cookie
              = IF c = <<>> THEN <<>>
                ELSE << CookieOpen
                        \o Join(CookieSep, [n \in 1..Len(c) |-> c[n][1] \o EQUALS \o c[n][2]]) >>

\* ------------------------------------------------------ reconstructed bodies

\* The parse_body calls made for the i-th response.
ReadsOf(i) == SelectSeq(reads, LAMBDA e : e.id = i)

\* C7: the framing of a response body: Content-Length N > 0 reads N bytes;
\* any other response with Transfer-Encoding: chunked is read chunked; else
\* no body read is made and the body is None.
C7_FramingOrder ==
    \A i \in 1..Len(received) :
        LET h == received[i].headers
            cl == IF HasKey(h, "Content-Length")
                  THEN IntOf(Get(h, "Content-Length"), 0)
                  ELSE [ok |-> FALSE, n |-> 0]
        IN  IF cl.ok /\ cl.n > 0
            THEN /\ Len(ReadsOf(i)) = 1
                 /\ HasKey(ReadsOf(i)[1].kwargs, "length")
                 /\ Get(ReadsOf(i)[1].kwargs, "length") = cl.n
                 /\ ~HasKey(ReadsOf(i)[1].kwargs, "chunked")
            ELSE IF HasKey(h, "Transfer-Encoding")
                    /\ Strip(Get(h, "Transfer-Encoding")) = CHUNKED
            THEN /\ Len(ReadsOf(i)) = 1
                 /\ HasKey(ReadsOf(i)[1].kwargs, "chunked")
            ELSE /\ ReadsOf(i) = <<>>
                 /\ IsNone(received[i].body)

\* C8: for the response to a HEAD request no body read is made and the body
\* is None, whatever the headers.
C8_HeadHasNoBody ==
    \A i \in 1..Len(received) :
        received[i].method = "HEAD" =>
            /\ ReadsOf(i) = <<>>
            /\ IsNone(received[i].body)

\* The body a request was sent with matches the selection table, where
\* present(x) says which body sources count as present: files and form ->
\* one multipart body with the parts of both; files -> multipart; form ->
\* URL-encoded, or the raw value as text/html when it is not a mapping;
\* JSON -> JSON-encoded; none -> an empty body, Content-Length 0 and no
\* Content-Type. No selection raises.
C11_Selection(present(_)) ==
    LET d == call.kw.data
        f == call.kw.files
        j == call.kw.json
        enc == call.kw.encoding
    IN  /\ error # "TypeError"
        /\ \A i \in 1..Len(sock) :
             LET hd == sock[i].head.headers
                 ct == IF HasKey(hd, "Content-Type") THEN Get(hd, "Content-Type") ELSE "None"
                 b == sock[i].body
             IN  IF present(f) /\ present(d)
                 THEN /\ ct = MultipartCtype
                      /\ d.t = "dict"
                      /\ b = Multipart(f.v \o d.v, enc)
                 ELSE IF present(f)
                 THEN ct = MultipartCtype /\ b = Multipart(f.v, enc)
                 ELSE IF present(d)
                 THEN IF d.t = "dict"
                      THEN /\ ct = " application/x-www-form-urlencoded"
                           /\ b = Encode(Dict2Query(d.v, FALSE, FALSE, enc), enc)
                      ELSE ct = " text/html" /\ b = WireBody(d, enc)
                 ELSE IF present(j)
                 THEN ct = " application/json" /\ b = Encode(JsonDumps(j), enc)
                 ELSE ct = "None" /\ b = <<>> /\ Get(hd, "Content-Length") = "0"

\* A body source is present when it was supplied (is not None).
Supplied(x) == ~IsNone(x)

\* C11: the body encoding is selected by which body sources are present, for
\* every combination of form data, file data and JSON payload: files and form
\* -> one multipart body holding the parts of both; only files -> multipart;
\* only form -> URL-encoded, or the raw value (text/html) when the form is
\* not a mapping; only JSON -> JSON-encoded (application/json); none -> an
\* empty body with Content-Length: 0. "Present" is read either way: supplied,
\* or supplied and non-empty.
C11_BodySelection ==
    (IsNone(call.kw.headers) \/ ~HasKey(call.kw.headers.v, "Content-Length")) =>
        (C11_Selection(Supplied) \/ C11_Selection(Truthy))

RECURSIVE SplitOn(_, _, _)
\* The pieces of s between occurrences of the character sep; cur is the
\* piece being read.
SplitOn(s, sep, cur) ==
    IF s = <<>> THEN <<cur>>
    ELSE IF s[1] = sep THEN <<cur>> \o SplitOn(Tail(s), sep, <<>>)
    ELSE SplitOn(Tail(s), sep, Append(cur, s[1]))

\* The value of a hexadecimal digit.
HexVal(c) == IF c < 58 THEN c - 48 ELSE c - 55

RECURSIVE Unquote(_)
\* Form decoding of one key or value: '+' is a space, %XX is the byte XX.
Unquote(s) ==
    IF s = <<>> THEN <<>>
    ELSE IF s[1] = 43 THEN <<32>> \o Unquote(Tail(s))
    ELSE IF s[1] = 37 /\ Len(s) >= 3
         THEN <<16 * HexVal(s[2]) + HexVal(s[3])>> \o Unquote(SubSeq(s, 4, Len(s)))
    ELSE <<s[1]>> \o Unquote(Tail(s))

RECURSIVE Decode(_, _)
\* bs.decode(enc), for the byte sequences Encode produces.
Decode(bs, enc) ==
    IF bs = <<>> THEN <<>>
    ELSE IF enc # "utf-8" \/ bs[1] < 128 THEN <<bs[1]>> \o Decode(Tail(bs), enc)
    ELSE IF bs[1] < 224
         THEN <<(bs[1] - 192) * 64 + (bs[2] - 128)>> \o Decode(SubSeq(bs, 3, Len(bs)), enc)
    ELSE <<(bs[1] - 224) * 4096 + (bs[2] - 128) * 64 + (bs[3] - 128)>>
         \o Decode(SubSeq(bs, 4, Len(bs)), enc)

\* A query string decoded: split on '&', each pair split at its first '=',
\* both sides form-decoded.
DecodeQuery(s, enc) ==
    IF s = <<>> THEN <<>>
    ELSE LET pairs == SplitOn(s, 38, <<>>)
             side(x) == Decode(Unquote(x), enc)
             kv(pr) == LET cut == SplitOn(pr, 61, <<>>)
                       IN  <<side(cut[1]),
                             side(SubSeq(pr, Len(cut[1]) + 2, Len(pr)))>>
         IN  [i \in 1..Len(pairs) |-> kv(pairs[i])]

\* The keys and values of a mapping in iteration order, as text: one pair
\* per str or number value, one pair per element of a list value.
Flatten(d) ==
    Concat([i \in 1..Len(d) |->
              IF d[i][2].t = "list"
              THEN [n \in 1..Len(d[i][2].v) |-> <<d[i][1], StrOf(d[i][2].v[n])>>]
              ELSE <<<<d[i][1], StrOf(d[i][2])>>>>])

\* C12: for every mapping whose values are all non-empty, decoding the query
\* encoder's output (split on '&', split each pair at '=', percent-decode,
\* '+' read as a space) gives back the mapping's keys and values in its
\* iteration order. The encoder's output is read off the URL-encoded body
\* of the request sent for a form.
C12_QueryRoundTrip ==
    LET d == call.kw.data
    IN  (/\ ~IsNone(d) /\ d.t = "dict"
         /\ IsNone(call.kw.files)
         /\ \A n \in 1..Len(d.v) : Truthy(d.v[n][2]))
        => \A i \in 1..Len(sock) :
             DecodeQuery(sock[i].body, call.kw.encoding) = Flatten(d.v)

\* The positions of a byte sequence at which pat occurs.
Occurrences(b, pat) ==
    { i \in 1..Len(b) : /\ i + Len(pat) - 1 <= Len(b)
                        /\ SubSeq(b, i, i + Len(pat) - 1) = pat }

\* The mapping handed to the multipart encoder (lines 211-219).
PartsOf(d, f) == IF ~IsNone(d) THEN DictUpdate(f.v, d.v) ELSE f.v

\* C13: every multipart body the encoder produces from a mapping of n parts
\* contains exactly n + 1 boundary delimiters: n opening '--boundary' lines
\* and one terminal '--boundary--' marker, which is the last delimiter and
\* ends the body.
C13_BoundaryCount ==
    \A i \in 1..Len(sock) :
        LET hd == sock[i].head.headers
            b == sock[i].body
            delim == DASHES \o Encode(BOUNDARY, call.kw.encoding)
            n == Len(PartsOf(call.kw.data, call.kw.files))
            last == Len(b) - Len(delim \o DASHES \o CRLF) + 1
        IN  (HasKey(hd, "Content-Type") /\ Get(hd, "Content-Type") = MultipartCtype)
            => /\ Cardinality(Occurrences(b, delim)) = n + 1
               /\ Cardinality(Occurrences(b, delim \o CRLF)) = n
               /\ Occurrences(b, delim \o DASHES \o CRLF) = {last}

\* The sentinel naming a callback: its __name__.
Sentinel(cb) == PyStr(cb.v)

\* C14: when a response has Content-Length > 0 and a streaming callback was
\* supplied, the callback is handed to the body read, and the body field of
\* the response is the sentinel naming the callback, not what the body read
\* returned.
C14_CallbackSentinel ==
    \A i \in 1..Len(received) :
        LET r == received[i]
            cl == IF HasKey(r.headers, "Content-Length")
                     /\ Get(r.headers, "Content-Length") # <<>>
                  THEN IntOf(Get(r.headers, "Content-Length"), 0)
                  ELSE [ok |-> FALSE, n |-> 0]
        IN  (cl.ok /\ cl.n > 0 /\ ~IsNone(call.kw.callback))
            => /\ \E k \in 1..Len(reads) :
                    /\ reads[k].id = r.id
                    /\ HasKey(reads[k].kwargs, "callback")
                    /\ Get(reads[k].kwargs, "callback") = call.kw.callback
               /\ r.body = Sentinel(call.kw.callback)

\* ------------------------------------------------------- failing connections

\* The exceptions the connection raises: from a write, from the header read
\* (a lost connection, or the timeout given to parse_stream_headers) and
\* from the body read.
WriteErrors == {"BrokenPipeError"}

HeaderReadErrors == {"ConnectionResetError", "TimeoutError"}

BodyReadErrors == {"ConnectionResetError"}

IOErrors == WriteErrors \cup HeaderReadErrors \cup BodyReadErrors

\* A call that starts over after a failed operation.
UnwindRetry(e) == "build"

\* Where control goes when an awaited operation raises e: no try statement
\* encloses the awaits of request_io, _send and _catch_response (nor those of
\* _redirect and _build_request above them), so e leaves the call.
Unwind(e) == "raised"

\* An awaited operation of attempt n raises e: events logs the exception.
IOFails(e, n) ==
    /\ pc' = Unwind(e)
    /\ error' = e
    /\ events' = Append(events, [op |-> e, n |-> n])
    /\ UNCHANGED <<method, uri, port, data, headers, encoding, json, files, params,
                   cookies, callback, timeout, max_redirects, history_objects,
                   persist_cookies, scheme, netloc, path, query, package, body,
                   resp, parse_kwargs, result, sock, reads, received, lookups,
                   peer, call>>

\* await self.sock.write(http_package) raises (line 381).
WriteFails ==
    /\ pc = "send"
    /\ \E e \in WriteErrors : IOFails(e, Len(sock) + 1)

\* await parser.parse_stream_headers(self.timeout) raises (line 339).
HeaderReadFails ==
    /\ pc = "headers"
    /\ \E e \in HeaderReadErrors : IOFails(e, Len(sock))

\* await parser.parse_body(**parse_kwargs) raises (line 361).
BodyReadFails ==
    /\ pc = "body"
    /\ parse_kwargs # <<>>
    /\ \E e \in BodyReadErrors : IOFails(e, Len(sock))

\* The responses of a peer that redirects, with and without bodies and
\* cookies.
FailResponses ==
    ChainResponses
    \cup { Answer(200, << <<"Content-Length", <<51>>>> >>, <<>>),
           Answer(303, << <<"Location", Relative("/r")>>,
                          <<"Content-Length", <<51>>>> >>, <<CookieT>>) }

\* A call, with or without a cookie store, over a connection that can fail
\* at every operation.
InitFail ==
    \E m \in {"GET", "POST", "HEAD"},
       mr \in {Fin(MaxBudget), Inf},
       jar \in {None, JarA} :
      Start(m, Uri("http", <<"a.example">>, "/x", ""),
            [Defaults EXCEPT !.max_redirects = mr, !.persist_cookies = jar],
            FailResponses)

NextFail ==
    \/ BuildRequest
    \/ Send
    \/ CatchHeaders
    \/ CatchBody
    \/ RequestIO
    \/ WriteFails
    \/ HeaderReadFails
    \/ BodyReadFails

SpecFail == InitFail /\ [][NextFail]_vars

\* C15: if the connection write, the header read (a timeout included) or the
\* body read fails at any iteration of a call, the failure propagates to the
\* caller unchanged and the attempt is aborted: the failure is the last
\* thing that happens (no further write, no retry), the call has raised that
\* exception and returned nothing, and for the failed attempt there is no
\* store operation, no redirect check and no history entry.
C15_FailureAborts ==
    \A i \in 1..Len(events) :
        events[i].op \in IOErrors =>
            /\ i = Len(events)
            /\ pc = "raised" /\ error = events[i].op /\ IsNone(result)
            /\ Len(sock) <= events[i].n
            /\ ~\E j \in 1..Len(events) :
                    /\ events[j].op \in {"store", "check_redirect"}
                    /\ events[j].n = events[i].n
            /\ Len(history_objects) = events[i].n - 1

\* A header read times out at the second request of a call with a cookie
\* store, after one redirect was followed.
C15_Witness ==
    /\ pc = "raised"
    /\ ~IsNone(persist_cookies)
    /\ events # <<>>
    /\ Last(events) = [op |-> "TimeoutError", n |-> 2]
    /\ Len(history_objects) = 1

\* C16: across every redirect iteration only the URI, the method and the
\* history change (with the budget and the fields derived from the URI): the
\* caller-supplied headers, query params, body sources, timeout, callback
\* and encoding keep the value the call was made with, and the cookie
\* mapping has the same value before the first request and before every
\* later request of the chain, whether "before a request" is read as
\* before it is built (the caller's mapping) or as it is written (the
\* mapping of the first request).
C16_FrameAcrossRedirects ==
    /\ headers = call.kw.headers /\ params = call.kw.params
    /\ data = call.kw.data /\ files = call.kw.files /\ json = call.kw.json
    /\ timeout = 999999
    /\ callback = call.kw.callback /\ encoding = call.kw.encoding
    /\ \/ \A i \in 2..Len(sock) : sock[i - 1].cookies = call.kw.cookies
       \/ \A i \in 2..Len(sock) : sock[i].cookies = sock[1].cookies

\* ----------------------------------------------------------- redirect targets

\* A Location header value with whitespace around the URI.
Padded(u) ==
    [scheme |-> u.scheme, netloc |-> u.netloc, path |-> u.path,
     query |-> u.query, pad |-> TRUE]

\* The responses of a peer that redirects every way: to a relative and to an
\* absolute Location, with and without a query, a port and whitespace.
RedirectResponses ==
    { Answer(200, <<>>, <<>>),
      Answer(303, << <<"Location", Relative("/r")>> >>, <<>>),
      Answer(307, << <<"Location", Padded(Uri("", <<>>, "/s", "q=1"))>> >>, <<>>),
      Answer(301, << <<"Location", Uri("http", <<"b.example", "8080">>, "/y", "")>> >>, <<>>),
      Answer(308, << <<"Location", Padded(Uri("https", <<"b.example">>, "/y", "z=2"))>> >>, <<>>) }

\* A call to a URI with or without an explicit port, against a peer that
\* redirects every way.
InitRedirect ==
    \E m \in {"GET", "POST"},
       u \in {Uri("http", <<"a.example">>, "/x", ""),
              Uri("http", <<"a.example", "8080">>, "/x", "k=v"),
              Uri("https", <<"a.example", "443">>, "/x", "")},
       mr \in {Fin(MaxBudget), Inf} :
      Start(m, u, [Defaults EXCEPT !.max_redirects = mr], RedirectResponses)

SpecRedirect == InitRedirect /\ [][Next]_vars

\* C17: on every redirect taken, the next target URI is resolved from the
\* whitespace-stripped Location: without a host component, it has the
\* current request's scheme and host and the Location's path and query;
\* with a host component, it is the Location itself and nothing of the
\* current URI is kept.
C17_RedirectTarget ==
    \A i \in 1..(Len(sock) - 1) :
        LET loc == Get(received[i].headers, "Location")
            cur == sock[i].uri
        IN  sock[i + 1].uri =
                IF loc.netloc = <<>>
                THEN Uri(cur.scheme, <<cur.netloc[1]>>, loc.path, loc.query)
                ELSE Uri(loc.scheme, loc.netloc, loc.path, loc.query)

\* A chain that followed a relative and then an absolute redirect, both with
\* whitespace around the Location.
C17_Witness ==
    /\ Len(sock) = 3
    /\ Get(received[1].headers, "Location") = Padded(Uri("", <<>>, "/s", "q=1"))
    /\ Get(received[2].headers, "Location")
         = Padded(Uri("https", <<"b.example">>, "/y", "z=2"))
    /\ sock[3].uri = Uri("https", <<"b.example">>, "/y", "z=2")

\* C18: after a relative redirect, the follow-up request is addressed to
\* the same host and port as the request that received the redirect: its
\* Host header equals the Host header of that request, also when the
\* original URI carried an explicit non-default port.
C18_RelativeKeepsHostHeader ==
    \A i \in 1..(Len(sock) - 1) :
        Get(received[i].headers, "Location").netloc = <<>> =>
            /\ Get(sock[i + 1].head.headers, "Host") = Get(sock[i].head.headers, "Host")
            /\ sock[i + 1].port = sock[i].port

\* ------------------------------------------------------------ order of steps

\* The step that may follow a step of the same iteration.
FollowsInIteration(e, f) ==
    \/ e.op = "lookup" /\ f.op = "write"
    \/ e.op = "write" /\ f.op = "headers"
    \/ e.op = "headers" /\ f.op \in {"body", "store"}
    \/ e.op = "body" /\ f.op = "store"
    \/ e.op = "store" /\ f.op = "check_redirect"

\* The number of store operations the log has for response k.
StoresOf(k) == Len(SelectSeq(events, LAMBDA e : e.op = "store" /\ e.n = k))

\* C19: each iteration of a call with a cookie store runs its steps in this
\* order, one at a time: lookup for the current (host, path), one write,
\* header read, body read if any, store of the response, redirect decision;
\* the next iteration starts only after that. Hence writes and header reads
\* alternate, every received response is stored exactly once (as soon as
\* request_io has taken it up), and the cookies of a redirect response are
\* in the store when the follow-up request looks its cookies up.
C19_StepOrder ==
    ~IsNone(call.kw.persist_cookies) =>
        /\ events # <<>> => events[1] = [op |-> "lookup", n |-> 1]
        /\ \A i \in 1..(Len(events) - 1) :
             LET e == events[i]
                 f == events[i + 1]
             IN  \/ f.n = e.n /\ FollowsInIteration(e, f)
                 \/ f.n = e.n + 1 /\ e.op = "check_redirect" /\ f.op = "lookup"
        /\ \A i \in 1..Len(lookups) :
             /\ i <= Len(sock) =>
                  /\ lookups[i].host = sock[i].uri.netloc[1]
                  /\ lookups[i].path = sock[i].uri.path
             /\ (i > 1 /\ lookups[i].host = lookups[i - 1].host) =>
                  \A c \in 1..Len(received[i - 1].cookies) :
                      received[i - 1].cookies[c] \in Range(lookups[i].found)
        /\ Len(sock) - Len(SelectSeq(events, LAMBDA e : e.op = "headers")) \in {0, 1}
        /\ \A k \in 1..Len(received) :
             StoresOf(k) = IF k = Len(received) /\ pc = "io" THEN 0 ELSE 1

\* A redirect response that sets a cookie was stored, and the follow-up
\* request, to the same host, looked it up and was written.
C19_Witness ==
    /\ ~IsNone(call.kw.persist_cookies)
    /\ Len(sock) = 2
    /\ received[1].cookies = <<CookieT>>
    /\ lookups[2].host = lookups[1].host
    /\ CookieT \in Range(lookups[2].found)
    /\ \E i \in 1..Len(events) :
          /\ events[i] = [op |-> "store", n |-> 1]
          /\ events[i + 2] = [op |-> "lookup", n |-> 2]

\* ---------------------------------------------------------------- termination

\* The responses of a peer that can redirect without end.
LiveResponses ==
    { Answer(200, <<>>, <<>>),
      Answer(303, << <<"Location", Relative("/r")>> >>, <<>>),
      Answer(307, << <<"Location", Uri("http", <<"b.example">>, "/y", "")>> >>, <<>>) }

\* A call of every redirect budget, finite or not, against that peer.
InitLive ==
    \E m \in {"GET", "POST", "HEAD"},
       mr \in {Fin(n) : n \in -1..MaxBudget} \cup {Inf} :
      Start(m, Uri("http", <<"a.example">>, "/x", ""),
            [Defaults EXCEPT !.max_redirects = mr], LiveResponses)

\* Every step of the call is awaited in turn, and each write and read that
\* is awaited completes: a step that can be taken is taken.
SpecLive == InitLive /\ [][Next]_vars /\ WF_vars(Next)

\* The call has ended, with a response or with TooManyRedirects.
Ended == pc = "returned" \/ (pc = "raised" /\ error = "TooManyRedirects")

\* C20: for every finite maximum-redirects setting and every sequence of
\* peer responses, an endless chain of redirects included, a call whose
\* writes and reads each complete eventually ends, by returning a response
\* or by raising TooManyRedirects; only the unbounded default lets an
\* endless redirect chain keep the call running.
C20_FiniteBudgetEnds == (~call.kw.max_redirects.inf) ~> Ended

\* A call with the largest finite budget, redirected at every response, has
\* raised TooManyRedirects.
C20_Witness ==
    /\ call.kw.max_redirects = Fin(MaxBudget)
    /\ pc = "raised" /\ error = "TooManyRedirects"
    /\ Len(history_objects) = MaxBudget + 1

====
